---- MODULE Spec2Model ----
(***************************************************************************)
(* A model of synchronized/__init__.py: the ObjectLock scoped handle, its  *)
(* lazily attached per-target RLock, the three decorators and the          *)
(* synchronized dispatcher, run by several preemptible threads.            *)
(***************************************************************************)
EXTENDS Integers, Sequences, FiniteSets, TLC

\* ------------------------------------------------------------------ bounds
NThreads == 2
MaxDepth == 2
MaxCalls == 2

Threads == 1..NThreads

\* ------------------------------------------------------------------ objects
\* The objects of the program that are used as targets or receivers:
\* the module-level function foo, the functions foo and bar defined in the
\* body of class Foo, two functions A and B wrapped by synchronized_method,
\* the class object Foo and two of its instances, and the method object
\* Foo.A read from the class after its definition.
None == "None"
Functions == {"foo", "Foo.foo", "Foo.bar", "A", "B"}
Methods == {"Foo.A"}
Instances == {"f", "f2"}
Classes == {"Foo"}
Targets == Functions \cup Methods \cup Instances \cup Classes

\* type(obj) as the dispatcher sees it.  A def in a class body is a plain
\* function when its decorator runs; Foo is a classic class object.
TypeOf(obj) ==
  IF obj \in Functions THEN "FunctionType"
  ELSE IF obj \in Methods THEN "MethodType"
  ELSE IF obj \in Instances THEN "InstanceType"
  ELSE "ClassType"

\* The class an attribute lookup on obj falls back to.
ClassOf(obj) == IF obj \in Instances THEN "Foo" ELSE None

\* ------------------------------------------------------------------ locks
\* An RLock instance is named by the object it was attached to when created
\* and by its serial number among the locks created for that object.
RegistryLock == <<"ObjectLock._lock", 0>>
NoLock == <<None, 0>>
Free == [owner |-> 0, count |-> 0]

VARIABLES
  calls,   \* the call sites of the code the threads run
  locks,   \* every RLock instance -> [owner, count]
  attr,    \* object -> the lock in its own __ObjectLock__ attribute, or NoLock
  stack,   \* thread -> its active synchronized sections, outermost first
  pc,      \* thread -> position of its innermost section
  exc,     \* thread -> an exception is propagating / ended its last call
  out,     \* thread -> outcome of the computation or wrapper that ended last
  wrappers,\* what the decorator calls made so far have returned
  left     \* thread -> calls it has still to make, or Forever

vars == <<calls, locks, attr, stack, pc, exc, out, wrappers, left>>

\* RLock.acquire() returns when the lock is free or owned by the caller.
CanAcquireAlways(l, t) == TRUE
CanAcquireNonReentrant(l, t) == locks[l].count = 0
CanAcquire(l, t) == locks[l].count = 0 \/ locks[l].owner = t

acquire(l, t) ==
  [locks EXCEPT ![l] = [owner |-> t, count |-> @.count + 1]]

\* RLock.release() by a thread that does not own the lock raises.
ReleaseRaises(l, t) == locks[l].owner # t \/ locks[l].count = 0

ReleaseFrees(l, t) ==
  IF ReleaseRaises(l, t) THEN locks ELSE [locks EXCEPT ![l] = Free]

release(l, t) ==
  IF ReleaseRaises(l, t) THEN locks
  ELSE [locks EXCEPT ![l] = IF @.count = 1 THEN Free
                            ELSE [owner |-> t, count |-> @.count - 1]]

\* hasattr(obj, '__ObjectLock__') / getattr(obj, '__ObjectLock__'): the
\* object's own attribute, else its class's.
HasAttrNever(obj) == FALSE
hasattr(obj) ==
  \/ attr[obj] # NoLock
  \/ (ClassOf(obj) # None /\ attr[ClassOf(obj)] # NoLock)

getattr(obj) ==
  IF attr[obj] # NoLock THEN attr[obj] ELSE attr[ClassOf(obj)]

\* RLock(): a lock instance that did not exist before.
Created == DOMAIN locks \ {RegistryLock}
CreatedFor(obj) == {l \in Created : l[1] = obj}
RLock(obj) == <<obj, Cardinality(CreatedFor(obj)) + 1>>

\* ------------------------------------------------------------------ wrappers
\* synchronized(obj): the strategy the dispatcher selects by type(obj).
SynchronizedWrapsAnyObject(obj) ==
  IF TypeOf(obj) = "FunctionType" THEN "synchronized_func"
  ELSE IF TypeOf(obj) = "MethodType" THEN "synchronized_method"
  ELSE "synchronized_object"

synchronized(obj) ==
  IF TypeOf(obj) = "FunctionType" THEN "synchronized_func"
  ELSE IF TypeOf(obj) = "MethodType" THEN "synchronized_method"
  ELSE IF TypeOf(obj) = "InstanceType" THEN "synchronized_object"
  ELSE None

\* A call site: the decorator applied (dec) to what (target), and the
\* receiver the resulting wrapper is called with (self).
Site(dec, target, self) == [dec |-> dec, target |-> target, self |-> self]

Strategy(s) ==
  IF s.dec = "synchronized" THEN synchronized(s.target)
  ELSE IF s.dec = "ObjectLock" THEN "synchronized_object"
  ELSE s.dec

\* The object whose lock guards the section.
LockKeyAlwaysTarget(s) == s.target
LockKey(s) ==
  IF Strategy(s) = "synchronized_method" THEN s.self ELSE s.target

\* ------------------------------------------------------------------ programs
\* The code the threads run: the scenarios of the self-test and the uses the
\* docstrings describe, each a set of call sites.
\* The module-level function foo, wrapped by the dispatcher and directly.
test_synchronized_func ==
  {Site("synchronized", "foo", None), Site("synchronized_func", "foo", None)}

\* foo and bar, decorated with @synchronized in the body of class Foo,
\* called on one instance.
test_synchronized ==
  {Site("synchronized", "Foo.foo", "f"), Site("synchronized", "Foo.bar", "f")}

\* Foo.foo called on two instances.
test_synchronized_instances ==
  {Site("synchronized", "Foo.foo", "f"), Site("synchronized", "Foo.foo", "f2")}

\* with ObjectLock(f) and with synchronized_object(f).
test_object_lock ==
  {Site("ObjectLock", "f", None), Site("synchronized_object", "f", None)}

\* with ObjectLock(x) for an instance and for its class object.
test_object_lock_class ==
  {Site("ObjectLock", "f", None), Site("ObjectLock", "Foo", None)}

\* with synchronized(f), beside the method Foo.A, which the dispatcher wraps
\* by synchronized_method, called on the same instance.
test_synchronized_object ==
  {Site("synchronized", "f", None), Site("synchronized", "Foo.A", "f")}

\* Methods A and B wrapped by synchronized_method, called on one instance.
test_synchronized_method ==
  {Site("synchronized_method", "A", "f"), Site("synchronized_method", "B", "f")}

\* Method A called on two instances.
test_synchronized_method_instances ==
  {Site("synchronized_method", "A", "f"), Site("synchronized_method", "A", "f2")}

Programs ==
  {test_synchronized_func, test_synchronized, test_synchronized_instances,
   test_object_lock, test_object_lock_class, test_synchronized_object,
   test_synchronized_method, test_synchronized_method_instances}

\* ------------------------------------------------------------------ state
Top(t) == stack[t][Len(stack[t])]
SetTop(t, f) == [stack EXCEPT ![t] = [@ EXCEPT ![Len(@)] = f]]
Pop(t) == [stack EXCEPT ![t] = SubSeq(@, 1, Len(@) - 1)]

\* Outcomes of a computation: it returns a value or raises an exception.
NoOutcome == <<None, None>>
Returns(v) == <<"return", v>>
Raises(e) == <<"raise", e>>

\* A thread that goes on calling for ever (the threads of Spec).
Forever == 0 - 1

Init ==
  /\ calls \in Programs
  /\ locks = (RegistryLock :> Free)
  /\ attr = [o \in Targets |-> NoLock]
  /\ stack = [t \in Threads |-> <<>>]
  /\ pc = [t \in Threads |-> "idle"]
  /\ exc = [t \in Threads |-> FALSE]
  /\ out = [t \in Threads |-> NoOutcome]
  /\ wrappers = {}
  /\ left = [t \in Threads |-> Forever]

\* ------------------------------------------------------------------ actions
\* The decorator calls of the program: those that wrap the functions of its
\* call sites, and synchronized applied to a class object the program uses,
\* which is neither a function, a bound method nor an instance.
IsWrapper(s) == Strategy(s) \in {"synchronized_func", "synchronized_method"}
Decoration(dec, target) == [dec |-> dec, target |-> target]
Decorations ==
  {Decoration(s.dec, s.target) : s \in {x \in calls : IsWrapper(x)}}
    \cup {Decoration("synchronized", s.target) :
             s \in {x \in calls : x.target \in Classes}}
Wrapper(d) == [dec |-> d.dec, target |-> d.target, result |-> Strategy(d)]

\* synchronized_func, synchronized_method, lines 53-57, 67-71: define
\* with_synchronization and return it; synchronized, lines 73-81: return
\* what the selected decorator returns, or nothing.  No lock is touched.
DecoratorCreatesLock(d) == (RLock(d.target) :> Free) @@ locks
DecoratorLocks(d) == locks

Decorate(t, d) ==
  /\ d \in Decorations
  /\ pc[t] \in {"idle", "body"}
  /\ Wrapper(d) \notin wrappers
  /\ wrappers' = wrappers \cup {Wrapper(d)}
  /\ locks' = DecoratorLocks(d)
  /\ UNCHANGED <<calls, attr, stack, pc, exc, out, left>>

\* A thread calls a wrapper or enters a with statement: ObjectLock(key) is
\* constructed, which starts _get_lock(key).  Nested calls are made from
\* inside the body of a section.  A wrapper exists once its decorator ran.
Call(t, s) ==
  /\ s \in calls
  /\ IsWrapper(s) => Wrapper(s) \in wrappers
  /\ \/ pc[t] = "idle"
     \/ pc[t] = "body" /\ ~exc[t]
  /\ Len(stack[t]) < MaxDepth
  /\ left[t] # 0
  /\ left' = [left EXCEPT ![t] = IF @ = Forever THEN @ ELSE @ - 1]
  /\ stack' = [stack EXCEPT ![t] = Append(@, [site |-> s, lock |-> NoLock])]
  /\ pc' = [pc EXCEPT ![t] = "with_cls_lock"]
  /\ exc' = [exc EXCEPT ![t] = FALSE]
  /\ out' = [out EXCEPT ![t] = NoOutcome]
  /\ UNCHANGED <<calls, locks, attr, wrappers>>

\* _get_lock, line 28: with cls._lock
RegistryFreeForAll(t) == TRUE
RegistryAvailable(t) == CanAcquire(RegistryLock, t)

GetLockAcquire(t) ==
  /\ pc[t] = "with_cls_lock"
  /\ RegistryAvailable(t)
  /\ locks' = acquire(RegistryLock, t)
  /\ pc' = [pc EXCEPT ![t] = "hasattr"]
  /\ UNCHANGED <<calls, attr, stack, exc, out, wrappers, left>>

\* _get_lock, line 30: if not hasattr(obj, lock_name)
GetLockCheck(t) ==
  /\ pc[t] = "hasattr"
  /\ pc' = [pc EXCEPT ![t] =
              IF hasattr(LockKey(Top(t).site)) THEN "getattr" ELSE "setattr"]
  /\ UNCHANGED <<calls, locks, attr, stack, exc, out, wrappers, left>>

\* _get_lock, line 31: setattr(obj, lock_name, RLock())
GetLockCreate(t) ==
  /\ pc[t] = "setattr"
  /\ LET obj == LockKey(Top(t).site)
         new == RLock(obj)
     IN /\ locks' = (new :> Free) @@ locks
        /\ attr' = [attr EXCEPT ![obj] = new]
  /\ pc' = [pc EXCEPT ![t] = "getattr"]
  /\ UNCHANGED <<calls, stack, exc, out, wrappers, left>>

\* The end of the with block of _get_lock: cls._lock is released.
GetLockKeepsRegistry(t) == locks
GetLockRelease(t) == release(RegistryLock, t)

\* _get_lock, line 32, and the end of its with block; __init__, line 18:
\* self.lock = the lock returned.
GetLockReturn(t) ==
  /\ pc[t] = "getattr"
  /\ stack' = SetTop(t, [Top(t) EXCEPT !.lock = getattr(LockKey(Top(t).site))])
  /\ locks' = GetLockRelease(t)
  /\ pc' = [pc EXCEPT ![t] = "enter"]
  /\ UNCHANGED <<calls, attr, exc, out, wrappers, left>>

\* __enter__, line 21: self.lock.acquire()
Enter(t) ==
  /\ pc[t] = "enter"
  /\ CanAcquire(Top(t).lock, t)
  /\ locks' = acquire(Top(t).lock, t)
  /\ pc' = [pc EXCEPT ![t] = "body"]
  /\ UNCHANGED <<calls, attr, stack, exc, out, wrappers, left>>

\* The protected computation returns.
Return(t) ==
  /\ pc[t] = "body" /\ ~exc[t]
  /\ pc' = [pc EXCEPT ![t] = "exit"]
  /\ out' = [out EXCEPT ![t] = Returns("value")]
  /\ UNCHANGED <<calls, locks, attr, stack, exc, wrappers, left>>

\* The protected computation raises.
Raise(t) ==
  /\ pc[t] = "body" /\ ~exc[t]
  /\ pc' = [pc EXCEPT ![t] = "exit"]
  /\ exc' = [exc EXCEPT ![t] = TRUE]
  /\ out' = [out EXCEPT ![t] = Raises("error")]
  /\ UNCHANGED <<calls, locks, attr, stack, wrappers, left>>

\* An exception of a nested call arrives in the body: the body handles it,
\* or lets it pass.
Catch(t) ==
  /\ pc[t] = "body" /\ exc[t]
  /\ exc' = [exc EXCEPT ![t] = FALSE]
  /\ UNCHANGED <<calls, locks, attr, stack, pc, out, wrappers, left>>

Propagate(t) ==
  /\ pc[t] = "body" /\ exc[t]
  /\ pc' = [pc EXCEPT ![t] = "exit"]
  /\ UNCHANGED <<calls, locks, attr, stack, exc, out, wrappers, left>>

\* __exit__, line 24: self.lock.release(), run by the with statement on
\* both ways out of the body; the frame then returns to its caller.
ExitSkipsReleaseOnException(l, t, e) == IF e THEN locks ELSE release(l, t)
ObjectLockExit(l, t, e) == release(l, t)

\* __exit__ has no return statement: it returns None.
ExitReturnsTrue(l, t) == "True"
ExitValue(l, t) == None

\* What the with statement, and so the wrapper (return func(...), lines 56
\* and 70), hands to the caller: the outcome o of the body, unless __exit__
\* raises, or returns a true value and so swallows the exception.
Delivered(l, t, o) ==
  IF ReleaseRaises(l, t) THEN Raises("AssertionError")
  ELSE IF o[1] = "raise" /\ ExitValue(l, t) # None THEN Returns(None)
  ELSE o

Exit(t) ==
  /\ pc[t] = "exit"
  /\ locks' = ObjectLockExit(Top(t).lock, t, exc[t])
  /\ out' = [out EXCEPT ![t] = Delivered(Top(t).lock, t, @)]
  /\ exc' = [exc EXCEPT ![t] = Delivered(Top(t).lock, t, out[t])[1] = "raise"]
  /\ stack' = Pop(t)
  /\ pc' = [pc EXCEPT ![t] = IF Len(stack[t]) = 1 THEN "idle" ELSE "body"]
  /\ UNCHANGED <<calls, attr, wrappers, left>>

\* The steps of _get_lock, and all the steps of one thread.
GetLockStep(t) ==
  \/ GetLockAcquire(t)
  \/ GetLockCheck(t)
  \/ GetLockCreate(t)
  \/ GetLockReturn(t)

Step(t) ==
  \/ \E d \in Decorations : Decorate(t, d)
  \/ \E s \in calls : Call(t, s)
  \/ GetLockStep(t)
  \/ Enter(t)
  \/ Return(t)
  \/ Raise(t)
  \/ Catch(t)
  \/ Propagate(t)
  \/ Exit(t)

Next == \E t \in Threads : Step(t)

Spec == Init /\ [][Next]_vars

\* ------------------------------------------------------------------ views
Frames(t) == 1..Len(stack[t])

\* Frame i of thread t is executing its protected body (a frame below the
\* innermost one is inside its body, waiting for the nested call).
InBody(t, i) == i < Len(stack[t]) \/ (i = Len(stack[t]) /\ pc[t] = "body")

\* Thread t is blocked in __enter__ on a lock another thread owns.
Blocked(t) == pc[t] = "enter" /\ ~CanAcquire(Top(t).lock, t)

\* The number of times t holds l, and the number of its sections entered on l.
HoldCount(t, l) == IF locks[l].owner = t THEN locks[l].count ELSE 0
SectionsOn(t, l) ==
  Cardinality({i \in Frames(t) : stack[t][i].lock = l /\
                                 (InBody(t, i) \/ pc[t] = "exit")})

\* The lock instances _get_lock has handed to the sections now active on obj.
Returned(obj) ==
  {stack[t][i].lock : <<t, i>> \in
     {x \in Threads \X (1..MaxDepth) :
        /\ x[2] \in Frames(x[1])
        /\ LockKey(stack[x[1]][x[2]].site) = obj
        /\ stack[x[1]][x[2]].lock # NoLock}}

ClassBodyMethods == {"Foo.foo", "Foo.bar"}

\* ------------------------------------------------------------------ claims
\* C1: at most one thread at a time is inside the body of a function
\* wrapped with synchronized_func.
C1_FuncMutualExclusion ==
  \A t1, t2 \in Threads : \A i \in Frames(t1), j \in Frames(t2) :
    ( /\ t1 # t2
      /\ Strategy(stack[t1][i].site) = "synchronized_func"
      /\ Strategy(stack[t2][j].site) = "synchronized_func"
      /\ stack[t1][i].site.target = stack[t2][j].site.target
      /\ InBody(t1, i) )
    => ~InBody(t2, j)

\* C1 witness: one thread is inside the body of the wrapped function foo
\* while another has called the wrapper and waits in __enter__.
C1_Witness ==
  /\ calls = test_synchronized_func
  /\ pc[1] = "body" /\ Top(1).site.target = "foo"
  /\ Blocked(2) /\ Top(2).site.target = "foo"

\* C2: calls of synchronized_method wrappers on the same receiver, the same
\* method or different ones, never overlap between threads.
C2_MethodMutualExclusion ==
  \A t1, t2 \in Threads : \A i \in Frames(t1), j \in Frames(t2) :
    ( /\ t1 # t2
      /\ Strategy(stack[t1][i].site) = "synchronized_method"
      /\ Strategy(stack[t2][j].site) = "synchronized_method"
      /\ stack[t1][i].site.self = stack[t2][j].site.self
      /\ InBody(t1, i) )
    => ~InBody(t2, j)

\* C2 witness: thread 1 runs method A on f while thread 2, calling the
\* other method B on f, waits for f's lock.
C2_Witness ==
  /\ pc[1] = "body" /\ Top(1).site = Site("synchronized_method", "A", "f")
  /\ Blocked(2) /\ Top(2).site = Site("synchronized_method", "B", "f")

\* C3: at most one thread at a time is inside a with block on a scoped
\* handle (ObjectLock(obj), synchronized_object(obj)) for the same obj.
C3_ObjectMutualExclusion ==
  \A t1, t2 \in Threads : \A i \in Frames(t1), j \in Frames(t2) :
    ( /\ t1 # t2
      /\ Strategy(stack[t1][i].site) = "synchronized_object"
      /\ Strategy(stack[t2][j].site) = "synchronized_object"
      /\ stack[t1][i].site.target = stack[t2][j].site.target
      /\ InBody(t1, i) )
    => ~InBody(t2, j)

\* C3 witness: thread 1 is inside with ObjectLock(f) while thread 2, with
\* its own handle synchronized_object(f), waits in __enter__.
C3_Witness ==
  /\ pc[1] = "body" /\ Top(1).site = Site("ObjectLock", "f", None)
  /\ Blocked(2) /\ Top(2).site = Site("synchronized_object", "f", None)

\* C4: a thread inside synchronized code for a target that enters
\* synchronized code for the same target again is not blocked: __enter__
\* can proceed, and no thread waits for a lock it owns.
C4_Reentrancy ==
  \A t \in Threads :
    /\ ( /\ pc[t] = "enter"
         /\ \E i \in Frames(t) :
              /\ i < Len(stack[t])
              /\ LockKey(stack[t][i].site) = LockKey(Top(t).site) )
       => ENABLED Enter(t)
    /\ (pc[t] = "enter" /\ locks[Top(t).lock].owner = t) => ENABLED Enter(t)

\* C4 witness: method A on f has called method B on f and both sections
\* are entered: the thread holds f's lock twice.
C4_Witness ==
  /\ Len(stack[1]) = 2 /\ pc[1] = "body"
  /\ stack[1][1].site = Site("synchronized_method", "A", "f")
  /\ stack[1][2].site = Site("synchronized_method", "B", "f")
  /\ HoldCount(1, stack[1][1].lock) = 2

\* C5: when an exception has left a section (it is in the caller's hands),
\* the acquisition made for that section is released: the thread holds each
\* lock exactly once per section it is still inside, and none when the
\* exception has ended its outermost call.
C5_ExceptionSafety ==
  \A t \in Threads :
    (exc[t] /\ pc[t] \in {"idle", "body"}) =>
      \A l \in DOMAIN locks : HoldCount(t, l) = SectionsOn(t, l)

\* C5 witness: thread 1's call of foo ended with an exception, and thread 2
\* has since acquired foo's lock and is inside the body.
C5_Witness ==
  /\ calls = test_synchronized_func
  /\ pc[1] = "idle" /\ exc[1]
  /\ pc[2] = "body" /\ HoldCount(2, Top(2).lock) = 1

\* C6: for a target whose lock has been requested, exactly one lock
\* instance has been created for it and every requester received that one.
C6_OneLockCreatedPerTarget ==
  \A obj \in Targets :
    Returned(obj) # {} =>
      /\ Cardinality(CreatedFor(obj)) = 1
      /\ Returned(obj) = CreatedFor(obj)

\* C7: the lock _get_lock returns for a target is the same at every call:
\* every active section on a target holds the target's current lock, and
\* once a target has a lock it is never replaced.
C7_LockNeverReplaced ==
  [][ /\ \A obj \in Targets :
           Returned(obj) # {} => (hasattr(obj) /\ Returned(obj) = {getattr(obj)})
      /\ \A obj \in Targets :
           hasattr(obj) => (hasattr(obj)' /\ getattr(obj)' = getattr(obj)) ]_vars

\* C7 witness: two threads have each obtained the lock of f from _get_lock,
\* after f's lock was created, and one is about to be handed it again.
C7_Witness ==
  /\ Returned("f") = {<<"f", 1>>}
  /\ \A t \in Threads : stack[t] # <<>> /\ LockKey(stack[t][1].site) = "f"
                        /\ stack[t][1].lock = <<"f", 1>>
  /\ Len(stack[1]) = 2 /\ pc[1] = "getattr" /\ LockKey(Top(1).site) = "f"

\* C8: a thread blocked at the entry of a section on target A is blocked
\* by a thread that is inside a section on A itself: a thread holding only
\* the lock of a distinct target B never blocks it.
C8_Independence ==
  \A t \in Threads :
    Blocked(t) =>
      \E i \in Frames(locks[Top(t).lock].owner) :
        LockKey(stack[locks[Top(t).lock].owner][i].site) = LockKey(Top(t).site)

\* C9: calls from different threads to methods decorated with @synchronized
\* in the class body (foo, bar), on the same instance, never overlap.
C9_ClassBodyMethodsExclusiveOnSelf ==
  \A t1, t2 \in Threads : \A i \in Frames(t1), j \in Frames(t2) :
    ( /\ t1 # t2
      /\ stack[t1][i].site.dec = "synchronized"
      /\ stack[t2][j].site.dec = "synchronized"
      /\ stack[t1][i].site.target \in ClassBodyMethods
      /\ stack[t2][j].site.target \in ClassBodyMethods
      /\ stack[t1][i].site.self = stack[t2][j].site.self
      /\ InBody(t1, i) )
    => ~InBody(t2, j)

\* C10: calls of a method decorated with @synchronized in the class body on
\* two different instances use different locks.
C10_ClassBodyMethodKeyedByReceiver ==
  \A t1, t2 \in Threads : \A i \in Frames(t1), j \in Frames(t2) :
    ( /\ stack[t1][i].site.dec = "synchronized"
      /\ stack[t2][j].site.dec = "synchronized"
      /\ stack[t1][i].site.target \in ClassBodyMethods
      /\ stack[t1][i].site.target = stack[t2][j].site.target
      /\ stack[t1][i].site.self # stack[t2][j].site.self
      /\ stack[t1][i].lock # NoLock
      /\ stack[t2][j].lock # NoLock )
    => stack[t1][i].lock # stack[t2][j].lock

\* C11: a wrapper made by synchronized_func or synchronized_method hands its
\* caller exactly the outcome of the wrapped computation, the value returned
\* or the exception raised, and no step of the wrapper before the body
\* raises.
C11_Transparency ==
  [][ \A t \in Threads :
        /\ (pc[t] = "exit" /\ IsWrapper(Top(t).site)) => out'[t] = out[t]
        /\ pc'[t] \in {"with_cls_lock", "hasattr", "setattr", "getattr", "enter"}
             => ~exc'[t] ]_vars

\* C11 witness: two calls of the wrapped function foo have ended, one with
\* the exception the body raised and one with the value it returned.
C11_Witness ==
  /\ calls = test_synchronized_func
  /\ pc[1] = "idle" /\ out[1] = Raises("error")
  /\ pc[2] = "idle" /\ out[2] = Returns("value")

\* The positions of a thread inside the with block of _get_lock.
InGetLock == {"hasattr", "setattr", "getattr"}

\* The sections of thread t that enclose its innermost one and hold l.
EnclosingOn(t, l) ==
  Cardinality({i \in Frames(t) : i < Len(stack[t]) /\ stack[t][i].lock = l})

\* C12: the registry lock is held only during the check-and-create step of
\* _get_lock: a thread that is running a protected body, or is anywhere
\* else outside that step, does not hold it.
C12_RegistryHeldOnlyInGetLock ==
  \A t \in Threads :
    /\ pc[t] \in InGetLock => HoldCount(t, RegistryLock) = 1
    /\ pc[t] \notin InGetLock => HoldCount(t, RegistryLock) = 0

\* C12 witness: thread 1 runs a protected body while thread 2 is inside
\* the check-and-create step, holding the registry lock.
C12_Witness ==
  /\ pc[1] = "body" /\ HoldCount(1, RegistryLock) = 0
  /\ pc[2] = "setattr" /\ HoldCount(2, RegistryLock) = 1

\* C13, as stated: no thread holds the registry lock while it holds a
\* per-target lock.
C13_RegistryNeverUnderTargetLock ==
  \A t \in Threads :
    HoldCount(t, RegistryLock) > 0 => \A l \in Created : HoldCount(t, l) = 0

\* C13, amended: a thread holds the registry lock together with per-target
\* locks only inside _get_lock of a nested call, where the per-target locks
\* it holds are exactly those of the enclosing sections; it never enters or
\* waits for a per-target lock while holding the registry lock.
C13_RegistryUnderEnclosingLocksOnly ==
  \A t \in Threads :
    /\ HoldCount(t, RegistryLock) > 0 =>
         /\ pc[t] \in InGetLock
         /\ \A l \in Created : HoldCount(t, l) = EnclosingOn(t, l)
    /\ pc[t] = "enter" => HoldCount(t, RegistryLock) = 0

\* C13 witness: method B, called from inside method A on the same instance,
\* is in _get_lock: the thread holds the registry lock and f's lock.
C13_Witness ==
  /\ Len(stack[1]) = 2 /\ pc[1] = "hasattr"
  /\ stack[1][1].site = Site("synchronized_method", "A", "f")
  /\ stack[1][2].site = Site("synchronized_method", "B", "f")
  /\ HoldCount(1, RegistryLock) = 1
  /\ HoldCount(1, stack[1][1].lock) = 1

\* C14: synchronized(target), for a target that is neither a function, a
\* method nor an instance, returns None and changes no lock, no lock
\* attribute and no thread's outcome (it raises nothing).
C14_UnrecognisedKindIsNoOp ==
  [][ \A w \in wrappers' \ wrappers :
        (w.dec = "synchronized" /\
         TypeOf(w.target) \notin {"FunctionType", "MethodType", "InstanceType"})
        => /\ w.result = None
           /\ locks' = locks /\ attr' = attr
           /\ exc' = exc /\ out' = out ]_vars

\* C14 witness: synchronized(Foo) has returned None, Foo has no lock
\* attached, and a thread is inside a section at that time.
C14_Witness ==
  /\ [dec |-> "synchronized", target |-> "Foo", result |-> None] \in wrappers
  /\ attr["Foo"] = NoLock
  /\ pc[1] = "body" /\ HoldCount(1, Top(1).lock) = 1

\* C15: each per-target lock is free exactly when its count is 0, and its
\* owner holds it once per section it has entered and not left; while a
\* thread is inside any section on the lock, no other thread can enter one.
C15_HoldCountStateMachine ==
  \A l \in Created :
    /\ locks[l].count = 0 <=> locks[l].owner = 0
    /\ \A t \in Threads :
         /\ HoldCount(t, l) = SectionsOn(t, l)
         /\ \A u \in Threads \ {t} :
              (SectionsOn(t, l) > 0 /\ pc[u] = "enter" /\ Top(u).lock = l)
                => ~ENABLED Enter(u)

\* C15 witness: a nested section on foo's lock has ended while the outer
\* section of thread 1 still runs; the count is back to 1 and thread 2
\* still waits.
C15_Witness ==
  /\ calls = test_synchronized_func
  /\ Len(stack[1]) = 1 /\ pc[1] = "body" /\ out[1] # NoOutcome
  /\ locks[stack[1][1].lock] = [owner |-> 1, count |-> 1]
  /\ Blocked(2) /\ Top(2).lock = stack[1][1].lock

\* -------------------------------------------------- finite, fair executions
\* The programs whose call sites all synchronize on one shared target: the
\* function foo, or the instance f.
SharedTargetPrograms ==
  {test_synchronized_func, test_object_lock, test_synchronized_object,
   test_synchronized_method, test_synchronized}

\* Threads that make a finite number of calls and then end (the threads of
\* the self-test, lines 105-110: started once, then joined).
InitFinite ==
  /\ calls \in Programs
  /\ locks = (RegistryLock :> Free)
  /\ attr = [o \in Targets |-> NoLock]
  /\ stack = [t \in Threads |-> <<>>]
  /\ pc = [t \in Threads |-> "idle"]
  /\ exc = [t \in Threads |-> FALSE]
  /\ out = [t \in Threads |-> NoOutcome]
  /\ wrappers = {}
  /\ left = [t \in Threads |-> MaxCalls]

InitSharedTarget == InitFinite /\ calls \in SharedTargetPrograms

\* Preemptive threads: a thread that can take a step eventually takes one.
\* The lock primitive promises no order among waiters, so nothing stronger.
FairSpec ==
  InitSharedTarget /\ [][Next]_vars /\ \A t \in Threads : WF_vars(Step(t))

\* All threads have made their calls and ended, every lock free.
Finished ==
  /\ \A t \in Threads : pc[t] = "idle" /\ left[t] = 0 /\ stack[t] = <<>>
  /\ \A l \in DOMAIN locks : locks[l] = Free

\* C16: with finitely many calls on one shared target, terminating bodies
\* and fair scheduling, every thread enters a protected body, every wait
\* in __enter__ ends, and all threads finish with every lock free.
C16_AcquisitionEventuallySucceeds ==
  /\ \A t \in Threads : <>(pc[t] = "body")
  /\ \A t \in Threads : (pc[t] = "enter") ~> (pc[t] = "body")
  /\ <>[]Finished

\* C16 on the programs in which the shared target has one lock for all its
\* call sites.
C16_SucceedsOnOneLock ==
  (calls # test_synchronized) => C16_AcquisitionEventuallySucceeds

\* C17: two distinct targets never share a lock instance: the lock handed
\* out for a target was created for that target, also for an instance
\* whose class object has been used as a target.
C17_DistinctTargetsDistinctLocks ==
  /\ \A obj \in Targets : Returned(obj) \subseteq CreatedFor(obj)
  /\ \A o1, o2 \in Targets : o1 # o2 => Returned(o1) \cap Returned(o2) = {}

\* C18: a decorator call creates no lock, acquires none and attaches none;
\* a target gets its lock attached only by the setattr step of a _get_lock
\* call for that target, and has none until then.
C18_LazyCreation ==
  [][ /\ wrappers' # wrappers => (locks' = locks /\ attr' = attr)
      /\ \A obj \in Targets :
           attr'[obj] # attr[obj] =>
             /\ attr[obj] = NoLock
             /\ \E t \in Threads :
                  /\ pc[t] = "setattr" /\ LockKey(Top(t).site) = obj
                  /\ pc'[t] = "getattr"
      /\ \A l \in Created' \ Created :
           \E obj \in Targets : attr'[obj] = l /\ attr[obj] = NoLock ]_vars

\* C18 witness: the wrapper of foo exists and is being called for the first
\* time: foo has no lock yet and the caller is about to create it.
C18_Witness ==
  /\ calls = test_synchronized_func
  /\ Wrapper(Decoration("synchronized", "foo")) \in wrappers
  /\ attr["foo"] = NoLock /\ CreatedFor("foo") = {}
  /\ pc[1] = "setattr" /\ LockKey(Top(1).site) = "foo"

\* C19: a with block on a scoped handle for x (ObjectLock(x),
\* synchronized_object(x), synchronized(x)) and a call of a
\* synchronized_method wrapper with receiver x use the same lock: they
\* never overlap between threads, and a thread inside the with block
\* enters the wrapped method on x without waiting.
C19_StrategiesShareOneLock ==
  /\ \A t1, t2 \in Threads : \A i \in Frames(t1), j \in Frames(t2) :
       ( /\ Strategy(stack[t1][i].site) = "synchronized_object"
         /\ Strategy(stack[t2][j].site) = "synchronized_method"
         /\ stack[t1][i].site.target = stack[t2][j].site.self )
       => /\ (stack[t1][i].lock # NoLock /\ stack[t2][j].lock # NoLock)
               => stack[t1][i].lock = stack[t2][j].lock
          /\ t1 # t2 => ~(InBody(t1, i) /\ InBody(t2, j))
  /\ \A t \in Threads :
       ( /\ pc[t] = "enter"
         /\ Strategy(Top(t).site) = "synchronized_method"
         /\ \E i \in Frames(t) :
              /\ i < Len(stack[t])
              /\ Strategy(stack[t][i].site) = "synchronized_object"
              /\ stack[t][i].site.target = Top(t).site.self )
       => ENABLED Enter(t)

\* C19 witness: thread 1, inside with synchronized(f), has called the
\* wrapped method Foo.A on f and is inside it, holding f's lock twice,
\* while thread 2 waits at the entry of with synchronized(f).
C19_Witness ==
  /\ Len(stack[1]) = 2 /\ pc[1] = "body"
  /\ stack[1][1].site = Site("synchronized", "f", None)
  /\ stack[1][2].site = Site("synchronized", "Foo.A", "f")
  /\ HoldCount(1, stack[1][1].lock) = 2
  /\ Blocked(2) /\ Top(2).site = Site("synchronized", "f", None)

\* A thread inside _get_lock runs on: the fairness the second half of C20
\* assumes.  Nothing is assumed of __enter__ or of the bodies, so threads
\* may wait for per-target locks, or stay inside a section, for ever.
FairRegistrySpec ==
  InitFinite /\ [][Next]_vars /\ \A t \in Threads : WF_vars(GetLockStep(t))

\* C20: a thread waiting in __enter__ for a per-target lock does not hold
\* the registry lock; the holder of the registry lock can always take its
\* next step; and every call of _get_lock completes, whatever the state of
\* the per-target locks.
C20_GetLockNeverWaitsOnTargetLock ==
  /\ [](\A t \in Threads :
          /\ pc[t] = "enter" => HoldCount(t, RegistryLock) = 0
          /\ HoldCount(t, RegistryLock) > 0 => ENABLED GetLockStep(t))
  /\ \A t \in Threads :
       (pc[t] \in {"with_cls_lock"} \cup InGetLock) ~> (pc[t] = "enter")

\* C20 witness: two threads are deadlocked on per-target locks, each
\* waiting in __enter__ for the lock the other holds, and the registry
\* lock is free.
C20_Witness ==
  /\ \A t \in Threads : Blocked(t) /\ HoldCount(t, RegistryLock) = 0
  /\ locks[RegistryLock] = Free

====
